---- MODULE Spec2Model ----
(***************************************************************************)
(* env-sync: a comment-preserving parser for ".env" files (src/lib/parse.rs)*)
(* and the merge of a local file with a template (src/lib/sync.rs); at the  *)
(* end, EnvFile::set of the single-file library (src/lib.rs).               *)
(*                                                                         *)
(* A text (&str) is a sequence of one-character strings.  A Cow<str> field *)
(* is such a sequence as well.  Option<T> is a sequence of length 0 (None)  *)
(* or 1 (Some).  Result<T, E> is [ok |-> TRUE, val |-> v] or                *)
(* [ok |-> FALSE, err |-> e].                                               *)
(***************************************************************************)
EXTENDS Naturals, Sequences, FiniteSets, TLC

VARIABLES
  pc,        \* position of the scenario being run
  input,     \* parse scenario: the text handed to EnvFile::try_from
  parsed,    \* parse scenario: Result of EnvFile::try_from(input)
  output,    \* parse scenario: Display of the parsed EnvFile
  reparsed,  \* parse scenario: Result of EnvFile::try_from(output)
  local,     \* merge scenario: the local EnvFile handed to EnvSync::sync
  template,  \* merge scenario: the template EnvFile handed to EnvSync::sync
  synced,    \* merge scenario: what EnvSync::sync returned
  fs,        \* run scenario: the file system, path -> Some(text) or None
  call,      \* run scenario: the EnvSyncOptions (and I/O fault) of the last call
  before,    \* run scenario: the file system when the last call started
  result,    \* run scenario: what sync_with_options returned
  io,        \* run scenario: the file operations the last call performed, in order
  calls,     \* run scenario: the number of calls made so far
  envFile,   \* set scenario: the EnvFile of src/lib.rs that EnvFile::set works on
  setCall    \* set scenario: key, value, EnvFile before and return value of the last set

parseVars == <<input, parsed, output, reparsed>>
syncVars == <<local, template, synced>>
runVars == <<fs, call, before, result, io, calls>>
setVars == <<envFile, setCall>>

vars == <<pc, parseVars, syncVars, runVars, setVars>>

(***************************************************************************)
(* Bounds of the model.                                                    *)
(***************************************************************************)
MaxTextLen == 5
MaxLocalLines == 2
MaxTemplateLines == 3

None == <<>>
Some(x) == <<x>>
Ok(v) == [ok |-> TRUE, val |-> v]
Err(e) == [ok |-> FALSE, err |-> e]

\* ParseError::InvalidLine(String)
InvalidLine(s) == [kind |-> "InvalidLine", line |-> s]

COMMENT_PREFIX == "#"
ASSIGNMENT_OPERATOR == "="

(***************************************************************************)
(* The parts of core::str the parser uses.                                 *)
(***************************************************************************)
\* the characters with the Unicode property White_Space; one that a string of
\* this module cannot hold is named by its code point
WHITE_SPACE ==
  { "\t", "\n", "U+000B", "\f", "\r", " ", "U+0085", "U+00A0", "U+1680",
    "U+2000", "U+2001", "U+2002", "U+2003", "U+2004", "U+2005", "U+2006",
    "U+2007", "U+2008", "U+2009", "U+200A", "U+2028", "U+2029", "U+202F",
    "U+205F", "U+3000" }

\* char::is_whitespace
IsWhitespace(c) == c \in WHITE_SPACE

\* str::trim_start
RECURSIVE TrimStart(_)
TrimStart(s) ==
  IF s # <<>> /\ IsWhitespace(Head(s)) THEN TrimStart(Tail(s)) ELSE s

\* str::trim_end
RECURSIVE TrimEnd(_)
TrimEnd(s) ==
  IF s # <<>> /\ IsWhitespace(s[Len(s)])
  THEN TrimEnd(SubSeq(s, 1, Len(s) - 1))
  ELSE s

\* str::trim
Trim(s) == TrimEnd(TrimStart(s))

\* str::starts_with, for a one-character pattern
StartsWith(s, c) == s # <<>> /\ Head(s) = c

\* str::strip_prefix, for a one-character pattern: Option<&str>
StripPrefix(s, c) == IF StartsWith(s, c) THEN Some(Tail(s)) ELSE None

\* str::find, for a one-character pattern: the first index, 0 when absent
RECURSIVE FindFrom(_, _, _)
FindFrom(s, c, i) ==
  IF i > Len(s) THEN 0
  ELSE IF s[i] = c THEN i
  ELSE FindFrom(s, c, i + 1)

\* the mutant of str::split_once that splits at the LAST delimiter (rsplit_once)
SplitOnce_Last(s, c) ==
  LET at == {k \in 1..Len(s) : s[k] = c} IN
  IF at = {} THEN None
  ELSE LET i == CHOOSE k \in at : \A m \in at : m <= k IN
       Some(<<SubSeq(s, 1, i - 1), SubSeq(s, i + 1, Len(s))>>)

\* str::split_once, for a one-character delimiter: Option<(&str, &str)>
SplitOnce(s, c) ==
  LET i == FindFrom(s, c, 1) IN
  IF i = 0 THEN None
  ELSE Some(<<SubSeq(s, 1, i - 1), SubSeq(s, i + 1, Len(s))>>)

\* str::lines: split after every "\n"; each piece loses its "\n" and then one
\* "\r" before it; a last piece without "\n" is kept as it is
LinesMap(piece, terminated) ==
  IF ~terminated THEN piece
  ELSE IF piece # <<>> /\ piece[Len(piece)] = "\r"
       THEN SubSeq(piece, 1, Len(piece) - 1)
       ELSE piece

RECURSIVE Lines(_)
Lines(s) ==
  IF s = <<>> THEN <<>>
  ELSE LET i == FindFrom(s, "\n", 1) IN
       IF i = 0 THEN <<LinesMap(s, FALSE)>>
       ELSE <<LinesMap(SubSeq(s, 1, i - 1), TRUE)>>
              \o Lines(SubSeq(s, i + 1, Len(s)))

(***************************************************************************)
(* src/lib/parse.rs: the entries of an EnvFile.                            *)
(***************************************************************************)
\* EnvEntry::Variable(EnvVariable { key, value, preceding_comments, inline_comment })
Variable(key, value, preceding, inline) ==
  [kind |-> "Variable", key |-> key, value |-> value,
   preceding_comments |-> preceding, inline_comment |-> inline]

\* EnvEntry::OrphanComment(EnvComment)
OrphanComment(comment) == [kind |-> "OrphanComment", comment |-> comment]

\* EnvEntry::EmptyLine
EmptyLine == [kind |-> "EmptyLine"]

\* EnvFile { entries }
EnvFile(entries) == [entries |-> entries]

\* impl TryFrom<&str> for EnvComment: the text after the "#" of the trimmed line
EnvComment_try_from(s) ==
  LET trimmed == Trim(s)
      content == StripPrefix(trimmed, COMMENT_PREFIX)
  IN IF content # None THEN Ok(content[1]) ELSE Err(InvalidLine(s))

\* impl TryFrom<&str> for EnvVariable
\* the mutant of EnvVariable::try_from that stores the value untrimmed
EnvVariable_try_from_RawValue(s) ==
  LET kv == SplitOnce(s, ASSIGNMENT_OPERATOR) IN
  IF kv # None
  THEN LET key == Trim(kv[1][1])
           value_part == kv[1][2]
           vc == SplitOnce(value_part, COMMENT_PREFIX)
       IN IF vc # None
          THEN Ok(Variable(key, vc[1][1], <<>>, Some(vc[1][2])))
          ELSE Ok(Variable(key, value_part, <<>>, None))
  ELSE Err(InvalidLine(s))

EnvVariable_try_from(s) ==
  LET kv == SplitOnce(s, ASSIGNMENT_OPERATOR) IN
  IF kv # None
  THEN LET key == Trim(kv[1][1])
           value_part == kv[1][2]
           vc == SplitOnce(value_part, COMMENT_PREFIX)
       IN IF vc # None
          THEN Ok(Variable(key, Trim(vc[1][1]), <<>>, Some(vc[1][2])))
          ELSE Ok(Variable(key, Trim(value_part), <<>>, None))
  ELSE Err(InvalidLine(s))

\* the mutant of EnvEntry::try_from that classifies the line without trimming it
EnvEntry_try_from_Untrimmed(s) ==
  IF s = <<>> THEN Ok(EmptyLine)
  ELSE IF StartsWith(s, COMMENT_PREFIX)
  THEN LET c == EnvComment_try_from(s) IN
       IF c.ok THEN Ok(OrphanComment(c.val)) ELSE c
  ELSE EnvVariable_try_from(s)

\* impl TryFrom<&str> for EnvEntry
EnvEntry_try_from(s) ==
  LET trimmed == Trim(s) IN
  IF trimmed = <<>> THEN Ok(EmptyLine)
  ELSE IF StartsWith(trimmed, COMMENT_PREFIX)
  THEN LET c == EnvComment_try_from(trimmed) IN
       IF c.ok THEN Ok(OrphanComment(c.val)) ELSE c
  ELSE EnvVariable_try_from(trimmed)

\* pending_comments flushed as one OrphanComment entry per comment
RECURSIVE Orphans(_)
Orphans(pending) ==
  IF pending = <<>> THEN <<>>
  ELSE <<OrphanComment(Head(pending))>> \o Orphans(Tail(pending))

\* the mutant of the loop of EnvFile::try_from in which a blank line does not
\* flush the pending comments, so that they reach the next Variable
RECURSIVE ParseLines_NoFlush(_, _, _)
ParseLines_NoFlush(lines, entries, pending_comments) ==
  IF lines = <<>> THEN Ok(EnvFile(entries \o Orphans(pending_comments)))
  ELSE LET r == EnvEntry_try_from(Head(lines)) IN
       IF ~r.ok THEN r
       ELSE LET entry == r.val IN
            IF entry.kind = "Variable"
            THEN ParseLines_NoFlush(Tail(lines),
                                    Append(entries,
                                           [entry EXCEPT !.preceding_comments = pending_comments]),
                                    <<>>)
            ELSE IF entry.kind = "OrphanComment"
            THEN ParseLines_NoFlush(Tail(lines), entries,
                                    Append(pending_comments, entry.comment))
            ELSE ParseLines_NoFlush(Tail(lines), Append(entries, entry),
                                    pending_comments)

\* the loop of EnvFile::try_from over s.lines(), and the flush after it
RECURSIVE ParseLines(_, _, _)
ParseLines(lines, entries, pending_comments) ==
  IF lines = <<>> THEN Ok(EnvFile(entries \o Orphans(pending_comments)))
  ELSE LET r == EnvEntry_try_from(Head(lines)) IN
       IF ~r.ok THEN r
       ELSE LET entry == r.val IN
            IF entry.kind = "Variable"
            THEN ParseLines(Tail(lines),
                            Append(entries,
                                   [entry EXCEPT !.preceding_comments = pending_comments]),
                            <<>>)
            ELSE IF entry.kind = "OrphanComment"
            THEN ParseLines(Tail(lines), entries,
                            Append(pending_comments, entry.comment))
            ELSE ParseLines(Tail(lines),
                            Append(entries \o Orphans(pending_comments), entry),
                            <<>>)

\* impl TryFrom<&str> for EnvFile
EnvFile_try_from(s) == ParseLines(Lines(s), <<>>, <<>>)

\* the mutant of EnvComment's Display that writes "# " before the text
EnvComment_fmt_WithSpace(comment) == <<COMMENT_PREFIX, " ">> \o comment

\* impl Display for EnvComment
EnvComment_fmt(comment) == <<COMMENT_PREFIX>> \o comment

\* the mutant of the preceding comments' output that ends no comment line
RECURSIVE CommentLines_NoNewline(_)
CommentLines_NoNewline(comments) ==
  IF comments = <<>> THEN <<>>
  ELSE EnvComment_fmt(Head(comments)) \o CommentLines_NoNewline(Tail(comments))

\* writeln!(f, "{}", comment) for each preceding comment
RECURSIVE CommentLines(_)
CommentLines(comments) ==
  IF comments = <<>> THEN <<>>
  ELSE EnvComment_fmt(Head(comments)) \o <<"\n">> \o CommentLines(Tail(comments))

\* impl Display for EnvVariable
EnvVariable_fmt(var) ==
  CommentLines(var.preceding_comments)
    \o var.key \o <<ASSIGNMENT_OPERATOR>> \o var.value
    \o (IF var.inline_comment # None
        THEN <<" ">> \o EnvComment_fmt(var.inline_comment[1])
        ELSE <<>>)

\* impl Display for EnvEntry
EnvEntry_fmt(entry) ==
  IF entry.kind = "Variable" THEN EnvVariable_fmt(entry) \o <<"\n">>
  ELSE IF entry.kind = "OrphanComment" THEN EnvComment_fmt(entry.comment) \o <<"\n">>
  ELSE <<"\n">>

\* impl Display for EnvFile
RECURSIVE EntriesFmt(_)
EntriesFmt(entries) ==
  IF entries = <<>> THEN <<>>
  ELSE EnvEntry_fmt(Head(entries)) \o EntriesFmt(Tail(entries))

EnvFile_fmt(file) == EntriesFmt(file.entries)

(***************************************************************************)
(* src/lib/parse.rs EnvFile::get and src/lib/sync.rs EnvSync::sync.        *)
(***************************************************************************)
\* EnvFile::get: the first Variable entry with the key, Option<&EnvVariable>
RECURSIVE FindVariable(_, _)
FindVariable(entries, key) ==
  IF entries = <<>> THEN None
  ELSE IF Head(entries).kind = "Variable" /\ Head(entries).key = key
  THEN Some(Head(entries))
  ELSE FindVariable(Tail(entries), key)

\* the mutant of EnvFile::get that takes the first Variable whatever its key
EnvFile_get_AnyKey(file, key) ==
  LET vars_at == {j \in 1..Len(file.entries) : file.entries[j].kind = "Variable"} IN
  IF vars_at = {} THEN None
  ELSE Some(file.entries[CHOOSE j \in vars_at : \A m \in vars_at : j <= m])

EnvFile_get(file, key) == FindVariable(file.entries, key)

\* the mutant of the value rule in which a non-empty local value always wins
CopyValue_LocalWins(template_var, local_var) ==
  IF local_var.value # <<>>
  THEN [template_var EXCEPT !.value = local_var.value]
  ELSE template_var

\* "Copy value if template is empty"
CopyValue(template_var, local_var) ==
  IF template_var.value = <<>> /\ local_var.value # <<>>
  THEN [template_var EXCEPT !.value = local_var.value]
  ELSE template_var

\* the mutant of the inline comment rule that copies the comment only along
\* with the value (into a Variable that now holds the local value)
CopyInlineComment_OnlyWithValue(template_var, local_var) ==
  IF /\ template_var.inline_comment = None
     /\ local_var.inline_comment # None
     /\ local_var.value = template_var.value
  THEN [template_var EXCEPT !.inline_comment = local_var.inline_comment]
  ELSE template_var

\* "Copy inline comment if template doesn't have one"
CopyInlineComment(template_var, local_var) ==
  IF template_var.inline_comment = None /\ local_var.inline_comment # None
  THEN [template_var EXCEPT !.inline_comment = local_var.inline_comment]
  ELSE template_var

\* "Copy preceding comments if template doesn't have any"
CopyPrecedingComments(template_var, local_var) ==
  IF template_var.preceding_comments = <<>> /\ local_var.preceding_comments # <<>>
  THEN [template_var EXCEPT !.preceding_comments = local_var.preceding_comments]
  ELSE template_var

\* the body of the loop of EnvSync::sync for one template entry
SyncEntry(local_file, entry) ==
  IF entry.kind = "Variable" /\ EnvFile_get(local_file, entry.key) # None
  THEN LET local_var == EnvFile_get(local_file, entry.key)[1] IN
       CopyPrecedingComments(
         CopyInlineComment(CopyValue(entry, local_var), local_var), local_var)
  ELSE entry

RECURSIVE SyncEntries(_, _)
SyncEntries(local_file, entries) ==
  IF entries = <<>> THEN <<>>
  ELSE <<SyncEntry(local_file, Head(entries))>>
         \o SyncEntries(local_file, Tail(entries))

\* the mutant of EnvSync::sync that keeps the local Variables whose key the
\* template lacks, after the template's entries
EnvSync_sync_KeepLocalOnly(local_file, template_file) ==
  Ok(EnvFile(SyncEntries(local_file, template_file.entries)
             \o SelectSeq(local_file.entries,
                          LAMBDA e : /\ e.kind = "Variable"
                                     /\ FindVariable(template_file.entries, e.key) = None)))

\* EnvSync::sync: the template with its entries rewritten in place
EnvSync_sync(local_file, template_file) ==
  Ok(EnvFile(SyncEntries(local_file, template_file.entries)))

(***************************************************************************)
(* The inputs of the parse scenario: every text over Alphabet of at most   *)
(* MaxTextLen characters.                                                  *)
(***************************************************************************)
Alphabet == {"a", "=", "#", " ", "\f", "\r", "\n"}

RECURSIVE SeqsUpTo(_, _)
SeqsUpTo(S, n) ==
  IF n = 0 THEN {<<>>}
  ELSE LET shorter == SeqsUpTo(S, n - 1) IN
       shorter \cup {Append(s, c) : s \in shorter, c \in S}

Texts == SeqsUpTo(Alphabet, MaxTextLen)

Unset == [unset |-> TRUE]

(***************************************************************************)
(* The parse scenario: parse a text, serialize the document, parse again.  *)
(***************************************************************************)
InitParse ==
  /\ pc = "start"
  /\ input \in Texts
  /\ parsed = Unset /\ output = Unset /\ reparsed = Unset
  /\ local = Unset /\ template = Unset /\ synced = Unset
  /\ fs = Unset /\ call = Unset /\ before = Unset /\ result = Unset /\ io = Unset
  /\ calls = Unset
  /\ envFile = Unset /\ setCall = Unset

Parse ==
  /\ pc = "start"
  /\ parsed' = EnvFile_try_from(input)
  /\ pc' = "parsed"
  /\ UNCHANGED <<input, output, reparsed, syncVars, runVars, setVars>>

Serialize ==
  /\ pc = "parsed"
  /\ parsed.ok
  /\ output' = EnvFile_fmt(parsed.val)
  /\ pc' = "serialized"
  /\ UNCHANGED <<input, parsed, reparsed, syncVars, runVars, setVars>>

Reparse ==
  /\ pc = "serialized"
  /\ reparsed' = EnvFile_try_from(output)
  /\ pc' = "reparsed"
  /\ UNCHANGED <<input, parsed, output, syncVars, runVars, setVars>>

NextParse == Parse \/ Serialize \/ Reparse

SpecParse == InitParse /\ [][NextParse]_vars

(***************************************************************************)
(* The merge scenario: EnvSync::sync on two parsed documents, and again    *)
(* with its own result as the local document.  The documents are those the *)
(* parser makes of the texts of at most MaxLocalLines lines drawn from     *)
(* LocalLines, and of at most MaxTemplateLines lines from TemplateLines.   *)
(***************************************************************************)
TemplateLines ==
  { <<>>,
    <<"#", "c">>,
    <<"a", "=">>,
    <<"a", "=", "v">>,
    <<"a", "=", " ", "#", "c">>,
    <<"a", "=", "w", " ", "#", "d">>,
    <<"b", "=">> }

LocalLines ==
  { <<"#", "d">>,
    <<"a", "=", "v">>,
    <<"a", "=", " ", "#", "c">>,
    <<"a", "=", "w", " ", "#", "d">>,
    <<"b", "=">> }

RECURSIVE JoinLines(_)
JoinLines(lines) ==
  IF lines = <<>> THEN <<>>
  ELSE Head(lines) \o <<"\n">> \o JoinLines(Tail(lines))

ParsedDocs(lines, maxLines) ==
  {EnvFile_try_from(JoinLines(ls)).val : ls \in SeqsUpTo(lines, maxLines)}

LocalDocs == ParsedDocs(LocalLines, MaxLocalLines)
TemplateDocs == ParsedDocs(TemplateLines, MaxTemplateLines)

InitSync ==
  /\ pc = "start"
  /\ local \in LocalDocs
  /\ template \in TemplateDocs
  /\ synced = Unset
  /\ input = Unset /\ parsed = Unset /\ output = Unset /\ reparsed = Unset
  /\ fs = Unset /\ call = Unset /\ before = Unset /\ result = Unset /\ io = Unset
  /\ calls = Unset
  /\ envFile = Unset /\ setCall = Unset

\* EnvSync::sync(local, template)
Sync ==
  /\ pc = "start"
  /\ synced' = EnvSync_sync(local, template).val
  /\ pc' = "synced"
  /\ UNCHANGED <<local, template, parseVars, runVars, setVars>>

\* the merged document becomes the local one: EnvSync::sync(synced, template)
Resync ==
  /\ pc = "synced"
  /\ local' = synced
  /\ synced' = EnvSync_sync(synced, template).val
  /\ pc' = "resynced"
  /\ UNCHANGED <<template, parseVars, runVars, setVars>>

\* the merged document is written as text, as update_local writes it, and read
\* back, as the next call reads the local file
Reread ==
  /\ pc = "synced"
  /\ output' = EnvFile_fmt(synced)
  /\ reparsed' = EnvFile_try_from(output')
  /\ pc' = "reread"
  /\ UNCHANGED <<syncVars, input, parsed, runVars, setVars>>

NextSync == Sync \/ Resync \/ Reread

SpecSync == InitSync /\ [][NextSync]_vars

(***************************************************************************)
(* src/lib/sync.rs EnvSync::sync_with_options and EnvSync::update_local,   *)
(* over a file system: a function from paths to Some(text), or None for a  *)
(* path that does not exist.  fault names the file operations the          *)
(* operating system refuses in this call, and for a refused write how many *)
(* characters of the text reached the file before it.                      *)
(***************************************************************************)
\* const DEFAULT_LOCAL_FILENAME, joined to the current directory
DEFAULT_LOCAL_FILENAME == ".env"

\* EnvSyncOptions { local_file, template_file }
EnvSyncOptions(local_file, template_file) ==
  [local_file |-> local_file, template_file |-> template_file]

\* the variants of EnvSyncError
TemplateNotFound(path) == [kind |-> "TemplateNotFound", path |-> path]
CreateLocal == [kind |-> "CreateLocal"]
LocalIo == [kind |-> "LocalIo"]
TemplateIo == [kind |-> "TemplateIo"]
LocalParse(e) == [kind |-> "LocalParse", source |-> e]
TemplateParse(e) == [kind |-> "TemplateParse", source |-> e]
Write == [kind |-> "Write"]

\* one file operation of a call
Op(name, path) == [op |-> name, path |-> path]

\* the path holds a file: what a stat of the path finds when it is not refused
IsFile(files, path) == files[path] # None

\* Path::exists, which is fs::metadata(path).is_ok(): false for a path without
\* a file, and false as well for a file whose stat the operating system refuses
Exists(files, path, refused) == ~refused /\ IsFile(files, path)

\* the text of an existing file
Content(files, path) == files[path][1]

\* what a call leaves behind: its Result, the file system, the operations made
Outcome(res, files, ops) == [result |-> res, fs |-> files, io |-> ops]

\* local_file.unwrap_or_else(|| current_dir().join(DEFAULT_LOCAL_FILENAME))
LocalPath(options) ==
  IF options.local_file # None THEN options.local_file[1]
  ELSE DEFAULT_LOCAL_FILENAME

\* what the operating system does to one call: kind names the file operation
\* whose refusal ends the call ("none" for none), written the characters
\* write_all gets into the file before a write is refused, and stat_local says
\* that the stat of the local path is refused as well, which does not end the
\* call
Fault(kind, written, stat_local) ==
  [kind |-> kind, written |-> written, stat_local |-> stat_local]

\* EnvSync::update_local: std::fs::write(local_path, local.to_string()), which
\* opens the file truncating it and then writes the text with write_all.
\* A refused open leaves the file as it was; a refused write leaves the file
\* with the characters written before it, fewer than the text has; a text
\* that is written before the refusal comes is written whole.
update_local(file, local_path, files, ops, fault) ==
  LET ops1 == Append(ops, Op("write", local_path))
      text == EnvFile_fmt(file)
  IN IF fault.kind = "write_open" THEN Outcome(Err(Write), files, ops1)
     ELSE IF fault.kind = "write_data" /\ fault.written < Len(text)
     THEN Outcome(Err(Write),
                  [files EXCEPT ![local_path] = Some(SubSeq(text, 1, fault.written))],
                  ops1)
     ELSE Outcome(Ok(<<>>), [files EXCEPT ![local_path] = Some(text)], ops1)

\* sync_with_options from the reads on: read both files, parse both, merge, write
ReadParseSync(files, options, ops, fault) ==
  LET local_path == LocalPath(options)
      template_file == options.template_file
      ops1 == Append(ops, Op("read", local_path))
      ops2 == Append(ops1, Op("read", template_file))
  IN IF fault.kind = "read_local" THEN Outcome(Err(LocalIo), files, ops1)
     ELSE IF fault.kind = "read_template" THEN Outcome(Err(TemplateIo), files, ops2)
     ELSE LET local_content == EnvFile_try_from(Content(files, local_path))
              template_content == EnvFile_try_from(Content(files, template_file))
          IN IF ~local_content.ok
             THEN Outcome(Err(LocalParse(local_content.err)), files, ops2)
             ELSE IF ~template_content.ok
             THEN Outcome(Err(TemplateParse(template_content.err)), files, ops2)
             ELSE LET merged == EnvSync_sync(local_content.val, template_content.val) IN
                  IF ~merged.ok THEN Outcome(merged, files, ops2)
                  ELSE update_local(merged.val, local_path, files, ops2, fault)

\* sync_with_options once the template is found: create the local file when
\* local_path.exists() is false, which empties a file whose stat was refused,
\* then go on
CreateLocalThenSync(files, options, ops, fault) ==
  LET local_path == LocalPath(options)
      ops1 == Append(ops, Op("exists", local_path))
  IN IF Exists(files, local_path, fault.stat_local)
     THEN ReadParseSync(files, options, ops1, fault)
     ELSE LET ops2 == Append(ops1, Op("write", local_path)) IN
          IF fault.kind = "create" THEN Outcome(Err(CreateLocal), files, ops2)
          ELSE ReadParseSync([files EXCEPT ![local_path] = Some(<<>>)], options, ops2, fault)

\* the mutant of sync_with_options that creates the local file before it looks
\* for the template
CreateLocalBeforeTemplateCheck(files, options, fault) ==
  LET local_path == LocalPath(options)
      created == IF Exists(files, local_path, fault.stat_local) THEN files
                 ELSE [files EXCEPT ![local_path] = Some(<<>>)]
      ops == <<Op("exists", local_path), Op("write", local_path),
               Op("exists", options.template_file)>>
  IN IF ~Exists(created, options.template_file, fault.kind = "stat_template")
     THEN Outcome(Err(TemplateNotFound(options.template_file)), created, ops)
     ELSE ReadParseSync(created, options, ops, fault)

\* EnvSync::sync_with_options
sync_with_options(files, options, fault) ==
  LET ops == <<Op("exists", options.template_file)>> IN
  IF ~Exists(files, options.template_file, fault.kind = "stat_template")
  THEN Outcome(Err(TemplateNotFound(options.template_file)), files, ops)
  ELSE CreateLocalThenSync(files, options, ops, fault)

(***************************************************************************)
(* The run scenario: up to MaxCalls calls of sync_with_options on a file    *)
(* system of three paths, each missing or holding one of FileTexts at the  *)
(* start.                                                                  *)
(***************************************************************************)
Paths == {DEFAULT_LOCAL_FILENAME, "local.env", ".env.template"}

FileTexts ==
  { <<"a", "=", "\n", "b", "=", "w">>,
    <<"#", "c", "\n", "a", "=", "v", " ", "#", "d", "\n">>,
    <<"a", "=", "\n", " ", "x", " ">> }

\* --local absent (the default path), or a path other than the default one
LocalFileChoices == {None} \cup {Some(p) : p \in Paths \ {DEFAULT_LOCAL_FILENAME}}

\* the most calls of one run
MaxCalls == 1

\* the most characters a refused write lets into the file: no text that a run
\* of this scenario writes is longer than MaxWritten + 1
MaxWritten == 13

\* what the operating system can do to a call: refuse no operation, or refuse
\* the stat of the template, the creation of the local file, a read, the open
\* of the final write or one of its writes after some characters; with any of
\* these it can refuse the stat of the local path
Faults ==
  {Fault(kind, 0, stat_local) :
     kind \in {"none", "stat_template", "create", "read_local", "read_template",
               "write_open"},
     stat_local \in BOOLEAN}
    \cup {Fault("write_data", written, stat_local) :
            written \in 0..MaxWritten, stat_local \in BOOLEAN}

\* the error a call ends with when it meets the refusal
RefusalError(kind, options) ==
  CASE kind = "stat_template" -> TemplateNotFound(options.template_file)
    [] kind = "create" -> CreateLocal
    [] kind = "read_local" -> LocalIo
    [] kind = "read_template" -> TemplateIo
    [] kind \in {"write_open", "write_data"} -> Write

\* the call meets every refusal of the fault: the refused operation is one the
\* call makes, on a file that is there where it is a stat, and short of the
\* whole text where it is a write
Met(files, options, fault, outcome) ==
  /\ fault.kind # "none" => outcome.result = Err(RefusalError(fault.kind, options))
  /\ fault.kind = "stat_template" => IsFile(files, options.template_file)
  /\ fault.stat_local =>
       /\ IsFile(files, LocalPath(options))
       /\ \E k \in 1..Len(outcome.io) : outcome.io[k] = Op("exists", LocalPath(options))

InitRun ==
  /\ pc = "idle"
  /\ fs \in [Paths -> {None} \cup {Some(t) : t \in FileTexts}]
  /\ call = None
  /\ before = fs
  /\ result = Unset
  /\ io = <<>>
  /\ calls = 0
  /\ input = Unset /\ parsed = Unset /\ output = Unset /\ reparsed = Unset
  /\ local = Unset /\ template = Unset /\ synced = Unset
  /\ envFile = Unset /\ setCall = Unset

\* one call of EnvSync::sync_with_options(options), as main makes it
SyncWithOptions ==
  \E local_file \in LocalFileChoices,
     template_file \in Paths,
     fault \in Faults :
    LET options == EnvSyncOptions(local_file, template_file)
        outcome == sync_with_options(fs, options, fault)
    IN /\ calls < MaxCalls
       /\ Met(fs, options, fault, outcome)
       /\ calls' = calls + 1
       /\ call' = Some([options |-> options, fault |-> fault])
       /\ before' = fs
       /\ fs' = outcome.fs
       /\ result' = outcome.result
       /\ io' = outcome.io
       /\ pc' = "called"
       /\ UNCHANGED <<parseVars, syncVars, setVars>>

NextRun == SyncWithOptions

SpecRun == InitRun /\ [][NextRun]_vars

(***************************************************************************)
(* Claims about the parser, checked under SpecParse.                       *)
(***************************************************************************)
\* the variables of a document that carry both kinds of comment
CommentedVariables(file) ==
  {i \in 1..Len(file.entries) :
     /\ file.entries[i].kind = "Variable"
     /\ file.entries[i].preceding_comments # <<>>
     /\ file.entries[i].inline_comment # None}

\* C1: for every text the parser accepts, serializing the parsed document and
\* parsing the output again succeeds and yields a document equal to the first
\* (same entries, order, keys, values, preceding and inline comments).
C1_RoundTrip ==
  pc = "reparsed" => reparsed.ok /\ reparsed.val = parsed.val

\* C1 happens: a document with a commented variable was serialized to a text
\* other than the input and parsed again.
C1_Witness ==
  /\ pc = "reparsed"
  /\ output # input
  /\ CommentedVariables(parsed.val) # {}

\* s[i..j] is a physical line of s: a maximal stretch without "\n"
IsPhysicalLine(s, i, j) ==
  /\ i <= j
  /\ \A k \in i..j : s[k] # "\n"
  /\ i = 1 \/ s[i - 1] = "\n"
  /\ j = Len(s) \/ s[j + 1] = "\n"

\* s[i..j] is, after trimming, non-empty, does not start with "#" and holds no "="
IsOffending(s, i, j) ==
  /\ \A k \in i..j : s[k] # "="
  /\ \E k \in i..j :
       /\ ~IsWhitespace(s[k])
       /\ s[k] # "#"
       /\ \A m \in i..(k - 1) : IsWhitespace(s[m])

HasOffendingLine(s) ==
  \E i \in 1..Len(s) : \E j \in i..Len(s) :
    IsPhysicalLine(s, i, j) /\ IsOffending(s, i, j)

\* C8: parsing fails iff some line is, after trimming, non-empty, not a comment
\* and without "="; the failure is InvalidLine and nothing else, and it returns
\* no document at all.
C8_FailsIffOffendingLine ==
  pc # "start" =>
    /\ ~parsed.ok <=> HasOffendingLine(input)
    /\ ~parsed.ok =>
         /\ DOMAIN parsed = {"ok", "err"}
         /\ DOMAIN parsed.err = {"kind", "line"}
         /\ parsed.err.kind = "InvalidLine"

\* C8 happens: a text whose first line parsed to a variable and whose later
\* line is offending was rejected.
C8_Witness ==
  /\ pc = "parsed"
  /\ ~parsed.ok
  /\ Len(Lines(input)) >= 2
  /\ EnvEntry_try_from(Lines(input)[1]).ok
  /\ EnvEntry_try_from(Lines(input)[1]).val.kind = "Variable"

\* the index in Lines(s) of the first line the parser rejects, 0 when none
FirstRejected(s) ==
  LET bad == {i \in 1..Len(Lines(s)) : ~EnvEntry_try_from(Lines(s)[i]).ok} IN
  IF bad = {} THEN 0 ELSE CHOOSE i \in bad : \A j \in bad : i <= j

\* C9: a failed parse carries the first offending line exactly as it stands in
\* the input (the physical line without its terminator, with the whitespace it
\* has), not a trimmed copy.
C9_ErrorCarriesRawLine ==
  (pc # "start" /\ ~parsed.ok) =>
    parsed.err.line = Lines(input)[FirstRejected(input)]

(***************************************************************************)
(* Claims about the merge, checked under SpecSync.  In a state where a     *)
(* merge has run, local and template are its arguments and synced is its   *)
(* result.                                                                 *)
(***************************************************************************)
Merged == pc \in {"synced", "resynced"}

IsVariable(entry) == entry.kind = "Variable"

\* the positions of the Variable entries with the key
KeyPositions(file, key) ==
  {j \in 1..Len(file.entries) :
     IsVariable(file.entries[j]) /\ file.entries[j].key = key}

\* the position of the first Variable with the key, 0 when there is none
FirstPosition(file, key) ==
  IF KeyPositions(file, key) = {} THEN 0
  ELSE CHOOSE j \in KeyPositions(file, key) :
         \A m \in KeyPositions(file, key) : j <= m

\* the keys of a document
KeysOf(file) ==
  {file.entries[j].key : j \in {m \in 1..Len(file.entries) : IsVariable(file.entries[m])}}

\* the template positions that hold a Variable whose key the local document has
MatchedPositions ==
  {i \in 1..Len(template.entries) :
     /\ IsVariable(template.entries[i])
     /\ FirstPosition(local, template.entries[i].key) # 0}

\* the local Variable that template position i is merged with
LocalMatch(i) == local.entries[FirstPosition(local, template.entries[i].key)]

\* C2: merging a document with itself as template is a no-op, also for
\* documents in which a key occurs on several lines: sync(D, D) = D.
C2_SelfMergeNoOp ==
  (pc = "synced" /\ local = template) => synced = template

\* C3: merge is idempotent for a fixed template: sync(sync(X, T), T) = sync(X, T).
C3_MergeIdempotent ==
  pc = "resynced" => synced = local

\* C4: the result has as many entries as the template, the same kind at every
\* position and the same key at every Variable position; so every key occurs
\* as often as in the template and a key of the local document alone never
\* appears.
C4_ShapeOfTemplate ==
  Merged =>
    /\ Len(synced.entries) = Len(template.entries)
    /\ \A i \in 1..Len(template.entries) :
         /\ synced.entries[i].kind = template.entries[i].kind
         /\ IsVariable(template.entries[i]) =>
              synced.entries[i].key = template.entries[i].key
    /\ \A k \in KeysOf(local) \cup KeysOf(template) \cup KeysOf(synced) :
         Cardinality(KeyPositions(synced, k)) = Cardinality(KeyPositions(template, k))
    /\ KeysOf(synced) = KeysOf(template)
    /\ (KeysOf(local) \ KeysOf(template)) \cap KeysOf(synced) = {}

\* C4 happens: the local document has a key the template lacks, the template
\* has a key twice, and the merge changed the template.
C4_Witness ==
  /\ pc = "synced"
  /\ KeysOf(local) \ KeysOf(template) # {}
  /\ \E k \in KeysOf(template) : Cardinality(KeyPositions(template, k)) > 1
  /\ synced # template

\* C5: the value of a template Variable in the result is the value of the
\* first local Variable with its key when the template value is empty and
\* that local value is not, and the template's value in every other case
\* (template value non-empty, key absent from local, first local value empty);
\* where the two values differ, the result has the local one iff that
\* condition holds.
C5_ValueRule ==
  Merged =>
    \A i \in 1..Len(template.entries) :
      IsVariable(template.entries[i]) =>
        LET t == template.entries[i]
            r == synced.entries[i]
        IN IF i \in MatchedPositions
           THEN LET l == LocalMatch(i)
                    takes == t.value = <<>> /\ l.value # <<>>
                IN /\ r.value = IF takes THEN l.value ELSE t.value
                   /\ l.value # t.value => (r.value = l.value <=> takes)
           ELSE r.value = t.value

\* C5 happens: the local document has a key twice with different non-empty
\* values, an empty template Variable took the first of them, and a non-empty
\* template Variable kept its value against a different local one.
C5_Witness ==
  /\ pc = "synced"
  /\ \E i \in MatchedPositions :
       LET k == template.entries[i].key IN
       /\ template.entries[i].value = <<>>
       /\ \E j \in KeyPositions(local, k) :
            /\ local.entries[j].value # <<>>
            /\ local.entries[j].value # LocalMatch(i).value
       /\ LocalMatch(i).value # <<>>
       /\ synced.entries[i].value = LocalMatch(i).value
  /\ \E i \in MatchedPositions :
       /\ template.entries[i].value # <<>>
       /\ LocalMatch(i).value # <<>>
       /\ LocalMatch(i).value # template.entries[i].value
       /\ synced.entries[i].value = template.entries[i].value

\* C6: for a template Variable with a local match, the inline comment of the
\* result is the local one iff the template has none and the local one is
\* present, and the preceding comments are the local list as a whole iff the
\* template's list is empty and the local one is not; otherwise they are the
\* template's.  Neither rule looks at the value or at the other rule.
C6_CommentRules ==
  Merged =>
    \A i \in MatchedPositions :
      LET t == template.entries[i]
          l == LocalMatch(i)
          r == synced.entries[i]
          takesInline == t.inline_comment = None /\ l.inline_comment # None
          takesPreceding == t.preceding_comments = <<>> /\ l.preceding_comments # <<>>
      IN /\ r.inline_comment = IF takesInline THEN l.inline_comment ELSE t.inline_comment
         /\ l.inline_comment # t.inline_comment =>
              (r.inline_comment = l.inline_comment <=> takesInline)
         /\ r.preceding_comments =
              IF takesPreceding THEN l.preceding_comments ELSE t.preceding_comments
         /\ l.preceding_comments # t.preceding_comments =>
              (r.preceding_comments = l.preceding_comments <=> takesPreceding)

\* C6 happens: a template Variable kept its non-empty value against a
\* different non-empty local value and still took the local inline comment and the
\* local preceding comments.
C6_Witness ==
  /\ pc = "synced"
  /\ \E i \in MatchedPositions :
       /\ template.entries[i].value # <<>>
       /\ LocalMatch(i).value # <<>>
       /\ LocalMatch(i).value # template.entries[i].value
       /\ synced.entries[i].value = template.entries[i].value
       /\ template.entries[i].inline_comment = None
       /\ synced.entries[i].inline_comment # None
       /\ template.entries[i].preceding_comments = <<>>
       /\ synced.entries[i].preceding_comments # <<>>

\* C7: every OrphanComment and EmptyLine of the template and every template
\* Variable whose key no local Variable has is in the result at the same
\* position with all fields unchanged; merging against an empty local
\* document returns the template.
C7_PassThrough ==
  Merged =>
    /\ \A i \in 1..Len(template.entries) :
         i \notin MatchedPositions => synced.entries[i] = template.entries[i]
    /\ local.entries = <<>> => synced = template

\* C7 happens: the template has an OrphanComment or EmptyLine and an unmatched
\* Variable with an empty value, and the merge with a non-empty local document
\* changed another entry.
C7_Witness ==
  /\ pc = "synced"
  /\ local.entries # <<>>
  /\ \E i \in 1..Len(template.entries) : ~IsVariable(template.entries[i])
  /\ \E i \in 1..Len(template.entries) :
       /\ IsVariable(template.entries[i])
       /\ i \notin MatchedPositions
       /\ template.entries[i].value = <<>>
  /\ synced # template

(***************************************************************************)
(* Claims about sync_with_options, checked under SpecRun.  In a state      *)
(* where a call has returned, call holds its options, before the file      *)
(* system it started from, io the file operations it made.                 *)
(***************************************************************************)
Called == call # None
CallOptions == call[1].options

\* the operations of the last call that create, read or write the path
Touches(path) ==
  {k \in 1..Len(io) : io[k].path = path /\ io[k].op \in {"read", "write"}}

\* C10: when the template path does not exist, sync_with_options returns
\* TemplateNotFound with that path, and has not created, read or written the
\* local file.
C10_TemplateNotFoundFirst ==
  (Called /\ ~IsFile(before, CallOptions.template_file)) =>
    /\ result = Err(TemplateNotFound(CallOptions.template_file))
    /\ Touches(LocalPath(CallOptions)) = {}
    /\ fs[LocalPath(CallOptions)] = before[LocalPath(CallOptions)]
    /\ fs = before

\* C10 happens: a call with the default local path, where neither the template
\* nor the local file (another path) existed, has returned.
C10_Witness ==
  /\ Called
  /\ CallOptions.local_file = None
  /\ CallOptions.template_file # LocalPath(CallOptions)
  /\ ~IsFile(before, CallOptions.template_file)
  /\ ~IsFile(before, LocalPath(CallOptions))
  /\ ~result.ok

(***************************************************************************)
(* More claims about the parser, checked under SpecParse.                  *)
(***************************************************************************)
Accepted == pc # "start" /\ parsed.ok

\* the first character of the line that is not whitespace, "" for a blank line
FirstVisible(line) ==
  LET at == {k \in 1..Len(line) : ~IsWhitespace(line[k])} IN
  IF at = {} THEN ""
  ELSE line[CHOOSE k \in at : \A m \in at : k <= m]

\* what a physical line is: "empty", "comment" or "variable"
LineKind(line) ==
  IF FirstVisible(line) = "" THEN "empty"
  ELSE IF FirstVisible(line) = "#" THEN "comment"
  ELSE "variable"

\* a line as the document should account for it: its kind, and for a comment
\* line the text after its "#"
LineItem(line) ==
  IF LineKind(line) = "comment"
  THEN [kind |-> "comment", text |-> Tail(Trim(line))]
  ELSE [kind |-> LineKind(line)]

RECURSIVE CommentItems(_)
CommentItems(comments) ==
  IF comments = <<>> THEN <<>>
  ELSE <<[kind |-> "comment", text |-> Head(comments)]>> \o CommentItems(Tail(comments))

\* the lines a sequence of entries stands for, in order
RECURSIVE EntryItems(_)
EntryItems(entries) ==
  IF entries = <<>> THEN <<>>
  ELSE LET e == Head(entries) IN
       (IF e.kind = "Variable"
        THEN CommentItems(e.preceding_comments) \o <<[kind |-> "variable"]>>
        ELSE IF e.kind = "OrphanComment"
        THEN <<[kind |-> "comment", text |-> e.comment]>>
        ELSE <<[kind |-> "empty"]>>)
       \o EntryItems(Tail(entries))

RECURSIVE LineItems(_)
LineItems(lines) ==
  IF lines = <<>> THEN <<>>
  ELSE <<LineItem(Head(lines))>> \o LineItems(Tail(lines))

\* the number of comment lines directly above line i
RECURSIVE RunAbove(_, _)
RunAbove(lines, i) ==
  IF i > 1 /\ LineKind(lines[i - 1]) = "comment"
  THEN 1 + RunAbove(lines, i - 1)
  ELSE 0

\* C11: every comment line of an accepted text is in the document exactly once
\* and in input order; the preceding_comments of a Variable are exactly the
\* maximal run of comment lines directly above its line; a run ended by a blank
\* line or by the end of the input becomes one OrphanComment per line, right
\* before that blank line's EmptyLine or at the end of the document.
C11_CommentDisposition ==
  Accepted =>
    LET lines == Lines(input)
        entries == parsed.val.entries
    IN /\ EntryItems(entries) = LineItems(lines)
       /\ \A e \in 1..Len(entries) :
            /\ entries[e].kind = "Variable" =>
                 Len(entries[e].preceding_comments) =
                   RunAbove(lines, Len(EntryItems(SubSeq(entries, 1, e))))
            /\ entries[e].kind = "OrphanComment" =>
                 (e = Len(entries) \/ entries[e + 1].kind \in {"OrphanComment", "EmptyLine"})

\* C11 happens: an accepted text with a comment attached to a Variable and a
\* comment that became an OrphanComment.
C11_Witness ==
  /\ Accepted
  /\ \E e \in 1..Len(parsed.val.entries) :
       /\ parsed.val.entries[e].kind = "Variable"
       /\ parsed.val.entries[e].preceding_comments # <<>>
  /\ \E e \in 1..Len(parsed.val.entries) : parsed.val.entries[e].kind = "OrphanComment"

IsVariableLine(line) == LineKind(line) = "variable"

\* the positions of character c in the line, after position from
PositionsAfter(line, c, from) == {k \in (from + 1)..Len(line) : line[k] = c}

Least(S) == CHOOSE k \in S : \A m \in S : k <= m

\* what an assignment line should yield, read off the line by positions: eq is
\* the first "=", hash the first "#" after it (0 when there is none)
LineKey(line) == Trim(SubSeq(line, 1, Least(PositionsAfter(line, "=", 0)) - 1))

LineHash(line) ==
  LET eq == Least(PositionsAfter(line, "=", 0)) IN
  IF PositionsAfter(line, "#", eq) = {} THEN 0
  ELSE Least(PositionsAfter(line, "#", eq))

LineValue(line) ==
  LET eq == Least(PositionsAfter(line, "=", 0)) IN
  Trim(SubSeq(line, eq + 1, IF LineHash(line) = 0 THEN Len(line) ELSE LineHash(line) - 1))

\* C12: for every non-comment line with an "=", the key is the trimmed text
\* before the first "=", the value the trimmed text between that "=" and the
\* first "#" after it (or the end of the line), and there is an inline comment
\* iff a "#" follows the first "="; so later "=" stay in the value, a "#" never
\* does, and "KEY=" with nothing but whitespace after it has the empty value
\* and no inline comment.
C12_AssignmentExtraction ==
  Accepted =>
    LET lines == SelectSeq(Lines(input), IsVariableLine)
        variables == SelectSeq(parsed.val.entries, IsVariable)
    IN /\ Len(variables) = Len(lines)
       /\ \A k \in 1..Len(lines) :
            /\ PositionsAfter(lines[k], "=", 0) # {}
            /\ variables[k].key = LineKey(lines[k])
            /\ variables[k].value = LineValue(lines[k])
            /\ variables[k].inline_comment # None <=> LineHash(lines[k]) # 0
            /\ \A c \in 1..Len(variables[k].value) : variables[k].value[c] # "#"
            /\ (\A c \in (Least(PositionsAfter(lines[k], "=", 0)) + 1)..Len(lines[k]) :
                  IsWhitespace(lines[k][c]))
                 => variables[k].value = <<>> /\ variables[k].inline_comment = None

\* C12 happens: an accepted assignment line with a second "=", which stays in
\* the value, and a "#" after it, which starts the inline comment.
C12_Witness ==
  /\ Accepted
  /\ \E k \in 1..Len(parsed.val.entries) :
       /\ parsed.val.entries[k].kind = "Variable"
       /\ \E c \in 1..Len(parsed.val.entries[k].value) : parsed.val.entries[k].value[c] = "="
       /\ parsed.val.entries[k].inline_comment # None

\* every comment text the document stores: preceding, inline and orphan
StoredComments(file) ==
  UNION {IF file.entries[e].kind = "Variable"
         THEN {file.entries[e].preceding_comments[c] :
                 c \in 1..Len(file.entries[e].preceding_comments)}
              \cup {file.entries[e].inline_comment[c] :
                      c \in 1..Len(file.entries[e].inline_comment)}
         ELSE IF file.entries[e].kind = "OrphanComment"
         THEN {file.entries[e].comment}
         ELSE {} : e \in 1..Len(file.entries)}

StoredKeysAndValues(file) ==
  UNION {IF file.entries[e].kind = "Variable"
         THEN {file.entries[e].key, file.entries[e].value}
         ELSE {} : e \in 1..Len(file.entries)}

NoLeadingWhitespace(s) == s = <<>> \/ ~IsWhitespace(s[1])
NoTrailingWhitespace(s) == s = <<>> \/ ~IsWhitespace(s[Len(s)])

\* s is in the text character for character, as one contiguous piece
Verbatim(s, text) ==
  \E i \in 1..(Len(text) + 1) : \E j \in (i - 1)..Len(text) : SubSeq(text, i, j) = s

\* C13, as claimed: no key, no value and no stored comment text of a parsed
\* document begins or ends with a whitespace character, and each is in the
\* input verbatim. Violated: the text of a comment is everything after its
\* "#", a leading space included.
C13_NoSurroundingWhitespace ==
  Accepted =>
    \A s \in StoredKeysAndValues(parsed.val) \cup StoredComments(parsed.val) :
      NoLeadingWhitespace(s) /\ NoTrailingWhitespace(s) /\ Verbatim(s, input)

\* C13, amended: no key and no value of a parsed document begins or ends with
\* a whitespace character, and no stored comment text ENDS with one; a comment
\* text keeps the whitespace that follows its "#"; the interior of each is in
\* the input verbatim.
C13_WhitespaceStripping ==
  Accepted =>
    /\ \A s \in StoredKeysAndValues(parsed.val) :
         NoLeadingWhitespace(s) /\ NoTrailingWhitespace(s) /\ Verbatim(s, input)
    /\ \A s \in StoredComments(parsed.val) :
         NoTrailingWhitespace(s) /\ Verbatim(<<"#">> \o s, input)

\* C13 happens: a stored comment text that begins with whitespace, from a
\* text whose trailing whitespace was stripped.
C13_Witness ==
  /\ Accepted
  /\ input # <<>> /\ IsWhitespace(input[Len(input)])
  /\ \E s \in StoredComments(parsed.val) : s # <<>> /\ IsWhitespace(s[1])

(***************************************************************************)
(* The merged document on its next read, checked under SpecSync.           *)
(***************************************************************************)
Reread_done == pc = "reread"

\* the comments and the value of an entry, to tell what the merge copied in
CopiedIn(e) ==
  /\ synced.entries[e].kind = "Variable"
  /\ synced.entries[e] # template.entries[e]

\* C14: the text written for a merged document is accepted by the parser and
\* parses back to the merged document itself: entry for entry the same kind,
\* key, value, preceding comments and inline comment.
C14_MergedRoundTrip ==
  Reread_done =>
    /\ output = EnvFile_fmt(EnvSync_sync(local, template).val)
    /\ reparsed.ok
    /\ reparsed.val = synced

\* C14 happens: a merged document was written and read back in which one
\* Variable took preceding comments from the local document and another entry
\* took a value or an inline comment from it.
C14_Witness ==
  /\ Reread_done
  /\ \E e \in 1..Len(synced.entries) :
       /\ CopiedIn(e)
       /\ synced.entries[e].preceding_comments # template.entries[e].preceding_comments
  /\ \E e \in 1..Len(synced.entries) :
       /\ CopiedIn(e)
       /\ \/ synced.entries[e].value # template.entries[e].value
          \/ synced.entries[e].inline_comment # template.entries[e].inline_comment

(***************************************************************************)
(* The local path when parsing fails, checked under SpecRun.               *)
(***************************************************************************)
ParseFailed ==
  /\ Called
  /\ ~result.ok
  /\ result.err.kind \in {"LocalParse", "TemplateParse"}

\* C15: when sync_with_options returns LocalParse or TemplateParse the local
\* path is as it was before the call: an existing local file has the content
\* it had and a missing one is still missing. Violated by the code: a local
\* file whose stat is refused is taken for missing and emptied by the
\* creation, and the template's parse error follows; a missing local file is
\* created as well.
C15_LocalPathUntouched ==
  ParseFailed => fs[LocalPath(CallOptions)] = before[LocalPath(CallOptions)]

(***************************************************************************)
(* src/lib.rs: the single-file library.  Its EnvFile has the same entries; *)
(* a comment is stored as the trimmed text with its "#".                   *)
(***************************************************************************)
MaxSetLines == 3

\* the assignment branch of EnvFile::from_str: line.find('=') on the line as
\* it is, then value_part.find('#')
FromStrVariable(line, eq_pos, pending_comments) ==
  LET key == Trim(SubSeq(line, 1, eq_pos - 1))
      value_part == SubSeq(line, eq_pos + 1, Len(line))
      hash_pos == FindFrom(value_part, "#", 1)
  IN IF hash_pos # 0
     THEN Variable(key, Trim(SubSeq(value_part, 1, hash_pos - 1)), pending_comments,
                   Some(Trim(SubSeq(value_part, hash_pos, Len(value_part)))))
     ELSE Variable(key, Trim(value_part), pending_comments, None)

\* the loop of EnvFile::from_str over s.lines(), and the flush after it
RECURSIVE FromStrLines(_, _, _)
FromStrLines(lines, entries, pending_comments) ==
  IF lines = <<>> THEN Ok(EnvFile(entries \o Orphans(pending_comments)))
  ELSE LET line == Head(lines)
           trimmed == Trim(line)
       IN IF trimmed = <<>>
          THEN FromStrLines(Tail(lines),
                            Append(entries \o Orphans(pending_comments), EmptyLine),
                            <<>>)
          ELSE IF StartsWith(trimmed, "#")
          THEN FromStrLines(Tail(lines), entries, Append(pending_comments, trimmed))
          ELSE IF FindFrom(line, "=", 1) # 0
          THEN FromStrLines(Tail(lines),
                            Append(entries,
                                   FromStrVariable(line, FindFrom(line, "=", 1),
                                                   pending_comments)),
                            <<>>)
          ELSE Err(InvalidLine(line))

\* impl FromStr for EnvFile
EnvFile_from_str(s) == FromStrLines(Lines(s), <<>>, <<>>)

\* what EnvFile::set leaves: the EnvFile and the returned Option
SetOutcome(entries, returned) == [file |-> EnvFile(entries), returned |-> returned]

\* the mutant of EnvFile::set that pushes a new Variable whatever the entries
EnvFile_set_Push(this, key, value) ==
  SetOutcome(Append(this.entries, Variable(key, value, <<>>, None)), None)

\* the loop of EnvFile::set from entry i on, and the push after it
RECURSIVE SetLoop(_, _, _, _)
SetLoop(entries, i, key, value) ==
  IF i > Len(entries)
  THEN SetOutcome(Append(entries, Variable(key, value, <<>>, None)), None)
  ELSE IF entries[i].kind = "Variable" /\ entries[i].key = key
  THEN SetOutcome([entries EXCEPT ![i].value = value], Some(entries[i].value))
  ELSE SetLoop(entries, i + 1, key, value)

\* EnvFile::set(&mut self, key, value) -> Option<Cow<str>>
EnvFile_set(this, key, value) == SetLoop(this.entries, 1, key, value)

(***************************************************************************)
(* The set scenario: any sequence of calls of set on an EnvFile that       *)
(* from_str made (the empty text gives EnvFile::default()).                *)
(***************************************************************************)
SetLines ==
  { <<>>,
    <<"#", "c">>,
    <<"a", "=">>,
    <<"a", "=", "v", " ", "#", "d">>,
    <<"b", "=", "w">> }

SetKeys == {<<"a">>, <<"b">>, <<"z">>}
SetValues == {<<>>, <<"v">>, <<"n">>}

SetDocs == {EnvFile_from_str(JoinLines(ls)).val : ls \in SeqsUpTo(SetLines, MaxSetLines)}

InitSet ==
  /\ pc = "ready"
  /\ envFile \in SetDocs
  /\ setCall = None
  /\ input = Unset /\ parsed = Unset /\ output = Unset /\ reparsed = Unset
  /\ local = Unset /\ template = Unset /\ synced = Unset
  /\ fs = Unset /\ call = Unset /\ before = Unset /\ result = Unset /\ io = Unset
  /\ calls = Unset

\* one call of envFile.set(key, value)
Set ==
  \E key \in SetKeys, value \in SetValues :
    LET outcome == EnvFile_set(envFile, key, value) IN
    /\ envFile' = outcome.file
    /\ setCall' = Some([key |-> key, value |-> value, before |-> envFile,
                        returned |-> outcome.returned])
    /\ pc' = "set"
    /\ UNCHANGED <<parseVars, syncVars, runVars>>

NextSet == Set

SpecSet == InitSet /\ [][NextSet]_vars

SetCalled == setCall # None
SetKey == setCall[1].key
SetValue == setCall[1].value
SetBefore == setCall[1].before
SetReturned == setCall[1].returned

\* C16: set never creates a duplicate key: when a Variable with the key exists
\* it overwrites the value of the first such Variable only, returns
\* Some(previous value) and leaves the entry count, the order, all comments
\* and every other entry as they were; only when no Variable has the key it
\* appends one Variable with that value, no preceding comments and no inline
\* comment at the end and returns None.
C16_SetNoDuplicate ==
  SetCalled =>
    LET first == FirstPosition(SetBefore, SetKey) IN
    /\ \A key \in KeysOf(envFile) \cup KeysOf(SetBefore) :
         Cardinality(KeyPositions(envFile, key)) =
           IF Cardinality(KeyPositions(SetBefore, key)) = 0 THEN 1
           ELSE Cardinality(KeyPositions(SetBefore, key))
    /\ IF first # 0
       THEN /\ SetReturned = Some(SetBefore.entries[first].value)
            /\ Len(envFile.entries) = Len(SetBefore.entries)
            /\ envFile.entries[first] = [SetBefore.entries[first] EXCEPT !.value = SetValue]
            /\ \A e \in 1..Len(envFile.entries) :
                 e # first => envFile.entries[e] = SetBefore.entries[e]
       ELSE /\ SetReturned = None
            /\ envFile.entries =
                 SetBefore.entries \o
                   <<[kind |-> "Variable", key |-> SetKey, value |-> SetValue,
                      preceding_comments |-> <<>>, inline_comment |-> <<>>]>>

\* C16 happens: set was called with a key that two Variables of the EnvFile
\* carry, the first of them with comments, and with a value other than the
\* one it had.
C16_Witness ==
  /\ SetCalled
  /\ Cardinality(KeyPositions(SetBefore, SetKey)) >= 2
  /\ SetBefore.entries[FirstPosition(SetBefore, SetKey)].value # SetValue
  /\ \E e \in KeyPositions(SetBefore, SetKey) :
       SetBefore.entries[e].preceding_comments # <<>>

====
